---- MODULE Spec2Model ----
(***************************************************************************)
(* Selection, picking, highlight and camera choreography of App.jsx.       *)
(*                                                                         *)
(* One action is one browser task: an event handler (or an animation frame *)
(* callback) together with the React render it schedules and the effects   *)
(* of that render (Model's highlight pass, CameraFocus's effect).          *)
(*                                                                         *)
(* Numbers are fixed point.  World coordinates are tenths of a unit, so    *)
(* Vector3(0, 1.2, 3) is <<0, 12, 30>>.  Times are milliseconds.  An eased *)
(* fraction is a numerator over EaseDen.                                   *)
(***************************************************************************)
EXTENDS Integers, Sequences, FiniteSets

\* ------------------------------------------------------------------ bounds
\* A frame arrives 200, 400, ... MaxGap*200 ms after the previous one.
MaxGap == 2
\* Home presses in one run (resetKey is an unbounded counter in the code).
MaxResets == 2
\* Resolution of the elapsed-time fraction t: t is held in steps of 1/TRes.
TRes == 6

\* --------------------------------------------------------------- constants
duration == 600

null == "null"
UnnamedMesh == "Unnamed mesh"

Min(a, b) == IF a < b THEN a ELSE b

\* ----------------------------------------------------------------- vectors
VAdd(a, b) == <<a[1] + b[1], a[2] + b[2], a[3] + b[3]>>
VSub(a, b) == <<a[1] - b[1], a[2] - b[2], a[3] - b[3]>>

\* Denominator of an eased fraction.
EaseDen == 2 * TRes * TRes * TRes

\* Mutant of Fraction: t is not clamped to 1.
FractionUnclamped(elapsed) == (elapsed * TRes) \div duration

\* t = Math.min(elapsed / duration, 1), in steps of 1/TRes.
Fraction(elapsed) == Min((elapsed * TRes) \div duration, TRes)

\* easeInOut(t) = t < 0.5 ? 4 t^3 : 1 - (-2 t + 2)^3 / 2, over EaseDen.
easeInOut(tq) ==
    IF 2 * tq < TRes
    THEN 8 * tq * tq * tq
    ELSE EaseDen - (2 * TRes - 2 * tq) * (2 * TRes - 2 * tq) * (2 * TRes - 2 * tq)

\* Vector3.lerpVectors(v1, v2, alpha): v1 + (v2 - v1) * alpha, per component.
lerpVectors(v1, v2, eased) ==
    <<v1[1] + ((v2[1] - v1[1]) * eased) \div EaseDen,
      v1[2] + ((v2[2] - v1[2]) * eased) \div EaseDen,
      v1[3] + ((v2[3] - v1[3]) * eased) \div EaseDen>>

\* ------------------------------------------------------------------- scene
\* The loaded glTF scene, in traversal order.  Two meshes share one material
\* definition; one mesh has no name and a material without an emissive slot;
\* one object is a Line, which a ray intersects but which is not a mesh.
\* center is the centre of the bounding box, hx and hy half its width and
\* height, front the depth of the face turned to the camera.
Children == <<"molar", "incisor", "tongue", "guide">>
ChildSet == {Children[i] : i \in 1..Len(Children)}

Node == [
    molar   |-> [isMesh |-> TRUE,  name |-> "Molar",   mat |-> "enamel",
                 center |-> <<-2, 0, 0>>, hx |-> 1, hy |-> 1, front |-> 1],
    incisor |-> [isMesh |-> TRUE,  name |-> "Incisor", mat |-> "enamel",
                 center |-> <<2, 0, 0>>,  hx |-> 1, hy |-> 2, front |-> 1],
    tongue  |-> [isMesh |-> TRUE,  name |-> "",        mat |-> "flat",
                 center |-> <<0, 0, 0>>,  hx |-> 4, hy |-> 1, front |-> -5],
    guide   |-> [isMesh |-> FALSE, name |-> "Guide",   mat |-> "line",
                 center |-> <<7, 0, 0>>,  hx |-> 5, hy |-> 0, front |-> 5] ]

Meshes == {c \in ChildSet : Node[c].isMesh}

\* A material is the definition it was made from and the child that owns it:
\* "shared" for a definition as loaded, the child's name for its private clone
\* (the clone is the one whose userData._cloned is set).
Bases == {Node[c].mat : c \in ChildSet}
Materials == [base : Bases, owner : ChildSet \cup {"shared"}]
Loaded(c) == [base |-> Node[c].mat, owner |-> "shared"]

\* Definitions that carry an emissive colour (MeshStandardMaterial and the like).
HasEmissive(m) == m.base = "enamel"

\* child.uuid
Uuid == [molar |-> "uuid-molar", incisor |-> "uuid-incisor",
         tongue |-> "uuid-tongue", guide |-> "uuid-guide"]

\* The name shown for a mesh: mesh.name || 'Unnamed mesh'.
DisplayName(c) == IF Node[c].name = "" THEN UnnamedMesh ELSE Node[c].name

\* ------------------------------------------------------------------- state
VARIABLES
    phase,            \* "boot": App rendered, canvas content not mounted yet;
                      \* "live": canvas content mounted; "torn": App unmounted
    modelStatus,      \* App state
    gltfScene,        \* App state: null or "scene"
    selectedId,       \* App state: null or a mesh uuid
    selectedName,     \* App state
    selectedMesh,     \* App state: null or a mesh
    showInstructions, \* App state
    debugEnabled,     \* App state
    hoverInfo,        \* App state
    resetKey,         \* App state
    resetView,        \* App state: NoView (null) or <<pose>>
    defaultView,      \* App ref: the default pose
    controlsRef,      \* App ref: null or "controls"
    camPos,           \* camera.position
    camTarget,        \* controls.target
    request,          \* the poses the running CameraFocus effect closed over
    elapsed,          \* now - startTime of that effect
    rafPending,       \* a frame callback of CameraFocus is scheduled
    hasCleanup,       \* the last CameraFocus effect run returned a cleanup
    orphans,          \* frame callbacks still scheduled that rafRef.current does
                      \* not name: the request and elapsed time of each, oldest first
    material,         \* child.material, per child
    emissive,         \* emissive colour and intensity, per material
    clones,           \* material.clone() calls made for each child
    writers,          \* who wrote the camera pose since the last frame began
    lastEvent,        \* the task that ran last; "pointerdown again" is a
                      \* pointer-down at the place and under the camera pose
                      \* of the pointer-down before it
    lastPick          \* a probe on the last pointer-down: where it was, the
                      \* camera pose it saw, what it found, how many rays it cast

appVars == <<modelStatus, gltfScene, selectedId, selectedName, selectedMesh,
             showInstructions, debugEnabled, hoverInfo, resetKey, resetView,
             defaultView, controlsRef>>
camVars == <<camPos, camTarget, request, elapsed, rafPending, hasCleanup, orphans>>
sceneVars == <<material, emissive, clones>>
vars == <<phase, appVars, camVars, sceneVars, writers, lastEvent, lastPick>>

selVars == <<selectedId, selectedName, selectedMesh>>

Pose(p, t) == [position |-> p, target |-> t]
NoView == <<>>
NoRequest == [startPos |-> <<0, 0, 0>>, startTarget |-> <<0, 0, 0>>,
              endPos |-> <<0, 0, 0>>, endTarget |-> <<0, 0, 0>>]
NoPick == [at |-> <<0, 0>>, cam |-> Pose(<<0, 0, 0>>, <<0, 0, 0>>),
           hit |-> null, samples |-> 0]

\* useRef({position: new Vector3(0, 1.2, 3), target: new Vector3(0, 0, 0)})
DefaultPose == Pose(<<0, 12, 30>>, <<0, 0, 0>>)

Init ==
    /\ phase = "boot"
    /\ modelStatus = "Loading..."
    /\ gltfScene = null
    /\ selectedId = null
    /\ selectedName = ""
    /\ selectedMesh = null
    /\ showInstructions = TRUE
    /\ debugEnabled = FALSE
    /\ hoverInfo = [name |-> "", x |-> 0, y |-> 0, visible |-> FALSE]
    /\ resetKey = 0
    /\ resetView = NoView
    /\ defaultView = DefaultPose
    /\ controlsRef = null
    /\ camPos = <<0, 12, 30>>              \* <Canvas camera={{position: [0, 1.2, 3]}}>
    /\ camTarget = <<0, 0, 0>>             \* a new OrbitControls targets the origin
    /\ request = NoRequest
    /\ elapsed = 0
    /\ rafPending = FALSE
    /\ hasCleanup = FALSE
    /\ orphans = <<>>
    /\ material = [c \in ChildSet |-> Loaded(c)]
    /\ emissive = [m \in Materials |-> IF HasEmissive(m) THEN "off" ELSE "na"]
    /\ clones = [c \in ChildSet |-> 0]
    /\ writers = {}
    /\ lastEvent = "init"
    /\ lastPick = NoPick

\* ----------------------------------------------------------------- picking
\* gl.domElement.getBoundingClientRect()
rect == [left |-> 10, top |-> 20, width |-> 200, height |-> 200]

\* Half the width and height of the view at the orbit target, in world tenths,
\* and the scale of a normalised device coordinate (hundredths).
view == [half |-> 100, ndc |-> 100]

\* Mutant of offsets: the two vertical samples change places.
offsetsSwapped == << <<0, 0>>, <<6, 0>>, <<-6, 0>>, <<0, -6>>, <<0, 6>>,
                     <<8, 8>>, <<-8, 8>>, <<8, -8>>, <<-8, -8>> >>

offsets == << <<0, 0>>, <<6, 0>>, <<-6, 0>>, <<0, 6>>, <<0, -6>>,
              <<8, 8>>, <<-8, 8>>, <<8, -8>>, <<-8, -8>> >>

\* x = ((baseX + dx) / rect.width) * 2 - 1;  y = -(((baseY + dy) / rect.height) * 2 - 1)
NdcX(px) == (px * 2 * view.ndc) \div rect.width - view.ndc
NdcY(py) == -((py * 2 * view.ndc) \div rect.height - view.ndc)

\* raycaster.setFromCamera({x, y}, camera): the point of the target plane the
\* ray passes through.  The camera looks at the orbit target.
RayPoint(tgt, ndc) ==
    <<tgt[1] + (ndc[1] * view.half) \div view.ndc,
      tgt[2] + (ndc[2] * view.half) \div view.ndc>>

\* Distance along the ray from the camera to a child.
Distance(pos, c) == pos[3] - Node[c].front

\* The children a ray through point w intersects: those in front of the camera
\* whose footprint holds w.
Struck(pos, w) ==
    {c \in ChildSet :
        /\ Distance(pos, c) > 0
        /\ w[1] >= Node[c].center[1] - Node[c].hx
        /\ w[1] <= Node[c].center[1] + Node[c].hx
        /\ w[2] >= Node[c].center[2] - Node[c].hy
        /\ w[2] <= Node[c].center[2] + Node[c].hy}

\* Position of a child in traversal order (ties in distance keep this order).
Order(c) == CHOOSE i \in 1..Len(Children) : Children[i] = c

Nearer(pos, a, b) ==
    \/ Distance(pos, a) < Distance(pos, b)
    \/ Distance(pos, a) = Distance(pos, b) /\ Order(a) < Order(b)

RECURSIVE ByDistance(_, _)
ByDistance(pos, S) ==
    IF S = {} THEN <<>>
    ELSE LET first == CHOOSE a \in S : \A b \in S \ {a} : Nearer(pos, a, b)
         IN  <<first>> \o ByDistance(pos, S \ {first})

\* raycaster.intersectObject(scene, true): intersections, nearest first.
intersectObject(pos, tgt, ndc) == ByDistance(pos, Struck(pos, RayPoint(tgt, ndc)))

\* Mutant of FindMesh: the mesh that is selected already is passed over.
FindMeshSkipSelected(hits) ==
    IF \E i \in 1..Len(hits) : Node[hits[i]].isMesh /\ hits[i] # selectedMesh
    THEN hits[CHOOSE i \in 1..Len(hits) :
                /\ Node[hits[i]].isMesh /\ hits[i] # selectedMesh
                /\ \A j \in 1..(i - 1) : ~(Node[hits[j]].isMesh /\ hits[j] # selectedMesh)]
    ELSE null

\* hits.find((item) => item.object?.isMesh)
FindMesh(hits) ==
    IF \E i \in 1..Len(hits) : Node[hits[i]].isMesh
    THEN hits[CHOOSE i \in 1..Len(hits) :
                /\ Node[hits[i]].isMesh
                /\ \A j \in 1..(i - 1) : ~Node[hits[j]].isMesh]
    ELSE null

\* The mesh the ray of one offset sample finds, or null.
Sample(pos, tgt, baseX, baseY, i) ==
    FindMesh(intersectObject(pos, tgt,
                 <<NdcX(baseX + offsets[i][1]), NdcY(baseY + offsets[i][2])>>))

\* The loop of handlePointerDown from sample i on: the first sample that finds
\* a mesh ends it.  samples counts the rays cast.
RECURSIVE PickFrom(_, _, _, _, _)
PickFrom(pos, tgt, baseX, baseY, i) ==
    IF i > Len(offsets) THEN [hit |-> null, samples |-> Len(offsets)]
    ELSE LET hit == Sample(pos, tgt, baseX, baseY, i)
         IN  IF hit # null THEN [hit |-> hit, samples |-> i]
             ELSE PickFrom(pos, tgt, baseX, baseY, i + 1)

Pick(pos, tgt, clientX, clientY) ==
    PickFrom(pos, tgt, clientX - rect.left, clientY - rect.top, 1)

\* --------------------------------------------------------------- highlight
\* Mutant of NeedsClone: the material is never cloned.
NeverClone(m) == FALSE

\* Mutant of NeedsClone: the _cloned mark is not looked at.
AlwaysClone(m) == TRUE

\* if (!child.material.userData._cloned)
NeedsClone(m) == m.owner = "shared"

\* Mutant of HighlightChild: the colour is set on the selected child only and
\* left as it is on the others.
HighlightChildKeep(sc, c, selId) ==
    IF ~Node[c].isMesh THEN sc
    ELSE
      LET old   == sc.material[c]
          own   == IF NeedsClone(old) THEN [base |-> old.base, owner |-> c] ELSE old
          emi1  == [sc.emissive EXCEPT ![own] = sc.emissive[old]]
          mat1  == [sc.material EXCEPT ![c] = own]
          cl1   == IF NeedsClone(old) THEN [sc.clones EXCEPT ![c] = @ + 1] ELSE sc.clones
      IN  IF HasEmissive(own) /\ Uuid[c] = selId
          THEN [material |-> mat1, emissive |-> [emi1 EXCEPT ![own] = "on"], clones |-> cl1]
          ELSE [material |-> mat1, emissive |-> emi1, clones |-> cl1]

\* One child of Model's traversal, on sc = [material, emissive, clones].
HighlightChild(sc, c, selId) ==
    IF ~Node[c].isMesh THEN sc
    ELSE
      LET old   == sc.material[c]
          own   == IF NeedsClone(old) THEN [base |-> old.base, owner |-> c] ELSE old
          \* material.clone() copies the colour of the material it is made from
          emi1  == [sc.emissive EXCEPT ![own] = sc.emissive[old]]
          mat1  == [sc.material EXCEPT ![c] = own]
          cl1   == IF NeedsClone(old) THEN [sc.clones EXCEPT ![c] = @ + 1] ELSE sc.clones
          isSelected == Uuid[c] = selId
      IN  IF ~HasEmissive(own)
          THEN [material |-> mat1, emissive |-> emi1, clones |-> cl1]
          ELSE [material |-> mat1,
                emissive |-> [emi1 EXCEPT ![own] = IF isSelected THEN "on" ELSE "off"],
                clones   |-> cl1]

\* gltf.scene.traverse(...) from child i on.
RECURSIVE Traverse(_, _, _)
Traverse(sc, i, selId) ==
    IF i > Len(Children) THEN sc
    ELSE Traverse(HighlightChild(sc, Children[i], selId), i + 1, selId)

\* The pass when it has visited the first n children.
RECURSIVE PassPrefix(_, _, _)
PassPrefix(sc, n, selId) ==
    IF n = 0 THEN sc
    ELSE HighlightChild(PassPrefix(sc, n - 1, selId), Children[n], selId)

\* The materials of the scene as they are now.
SceneNow == [material |-> material, emissive |-> emissive, clones |-> clones]

\* Model's highlight effect, deps [gltf.scene, selectedId].
HighlightEffect(selId) ==
    IF gltfScene # null /\ selId # selectedId
    THEN LET sc == Traverse(SceneNow, 1, selId)
         IN  /\ material' = sc.material
             /\ emissive' = sc.emissive
             /\ clones' = sc.clones
    ELSE UNCHANGED sceneVars

\* A surface shows the highlight when its material glows.
Highlighted(c) == emissive[material[c]] = "on"
HighlightedIn(sc, c) == sc.emissive[sc.material[c]] = "on"

\* ------------------------------------------------------------- CameraFocus
\* The effect's deps that can change: [resetKey, resetView, selectedMesh].
\* React runs the effect again when one of them differs from the last render.
\* Home makes a new resetView object each time and also bumps resetKey, so
\* comparing resetView by value loses nothing.
\* Mutant of DepsChanged: the effect runs after every render.
DepsAlways(old, new) == TRUE

DepsChanged(old, new) == old # new

\* Mutant of StartPose: the start pose of the request before is taken again.
StartPoseStale == Pose(request.startPos, request.startTarget)

\* startPos = camera.position.clone(); startTarget = controls.target.clone()
StartPose == Pose(camPos, camTarget)

\* new Box3().setFromObject(selectedMesh).getCenter(center)
Center(mesh) == Node[mesh].center

\* Mutant of EndPose: the offset is taken from the origin, not the orbit target.
EndPoseFromOrigin(mesh, rv, start) ==
    IF rv # NoView
    THEN Pose(rv[1].position, rv[1].target)
    ELSE Pose(VAdd(Center(mesh), start.position), Center(mesh))

\* The end pose: the reset view if there is one, else the selected mesh's
\* centre seen from the offset the camera has now.
EndPose(mesh, rv, start) ==
    IF rv # NoView
    THEN Pose(rv[1].position, rv[1].target)
    ELSE Pose(VAdd(Center(mesh), VSub(start.position, start.target)), Center(mesh))

\* Mutant of AfterCleanup: the cleanup does not cancel the frame callback.
AfterCleanupNoCancel(registered, pending) == pending

\* Whether the callback rafRef.current names is still scheduled once the cleanup
\* of the last effect run, if that run registered one, has run:
\* if (rafRef.current) cancelAnimationFrame(rafRef.current)
AfterCleanup(registered, pending) == IF registered THEN FALSE ELSE pending

\* One run of the effect body, after the cleanup of the run before it.  A
\* callback the cleanup left scheduled stays scheduled; once the new run
\* overwrites rafRef.current nothing names it any longer.
EffectRun(mesh, rv, controls) ==
    IF controls = null \/ (mesh = null /\ rv = NoView)
    THEN /\ rafPending' = AfterCleanup(hasCleanup, rafPending)
         /\ hasCleanup' = FALSE
         /\ UNCHANGED <<request, elapsed, orphans>>
    ELSE /\ request' = [startPos    |-> StartPose.position,
                        startTarget |-> StartPose.target,
                        endPos      |-> EndPose(mesh, rv, StartPose).position,
                        endTarget   |-> EndPose(mesh, rv, StartPose).target]
         /\ elapsed' = 0
         /\ rafPending' = TRUE
         /\ hasCleanup' = TRUE
         /\ orphans' = IF AfterCleanup(hasCleanup, rafPending)
                       THEN Append(orphans, [request |-> request, elapsed |-> elapsed])
                       ELSE orphans

\* CameraFocus after a render with the given props.
CameraFocusEffect(mesh, rv, rk) ==
    IF phase = "live" /\ DepsChanged(<<resetKey, resetView, selectedMesh>>, <<rk, rv, mesh>>)
    THEN EffectRun(mesh, rv, controlsRef)
    ELSE UNCHANGED <<request, elapsed, rafPending, hasCleanup, orphans>>

\* ------------------------------------------------------------------ inputs
\* Pointer positions (clientX, clientY) the user taps or hovers.
Pointers == { <<110, 120>>, <<108, 126>>, <<119, 126>> }

\* Pointer positions the user hovers in diagnostics mode.
HoverPointers == { <<110, 120>> }

\* Offsets from the orbit target a rotate or zoom gesture leaves the camera at.
OrbitOffsets == { <<0, 12, 30>>, <<0, 12, 29>> }

\* Frame gaps in ms.
Gaps == {200 * k : k \in 1..MaxGap}

\* ----------------------------------------------------------------- actions
\* Mutant of OnSelect: the name is stored as it is, empty or not.
OnSelectRawName(mesh) == [id |-> Uuid[mesh], name |-> Node[mesh].name, mesh |-> mesh]

\* Mutant of SelectView: onSelect leaves the reset view as it is.
SelectViewKept == resetView

\* onSelect: setResetView(null)
SelectView == NoView

\* The drawer's class: `drawer ${selectedId ? 'open' : ''}`
DrawerOpen == selectedId # null

\* onSelect: setSelectedId(mesh.uuid); setSelectedName(...); setSelectedMesh(mesh)
OnSelect(mesh) == [id |-> Uuid[mesh], name |-> DisplayName(mesh), mesh |-> mesh]

\* Mutant of Cleared: the setters are left out, the selection stays.
ClearedKept == [id |-> selectedId, name |-> selectedName, mesh |-> selectedMesh]

\* onMiss, Clear selection, Home: setSelectedId(null); setSelectedName(''); ...
Cleared == [id |-> null, name |-> "", mesh |-> null]

\* Mutant of HomeView: the position is cloned from the target.
HomeViewSlip == <<Pose(defaultView.target, defaultView.target)>>

\* Home: setResetView({position: defaultView.current.position.clone(), ...})
HomeView == <<Pose(defaultView.position, defaultView.target)>>

\* The render after the state setters of one handler, and its effects.
Commit(sel, rv, rk) ==
    /\ selectedId' = sel.id
    /\ selectedName' = sel.name
    /\ selectedMesh' = sel.mesh
    /\ resetView' = rv
    /\ resetKey' = rk
    /\ HighlightEffect(sel.id)
    /\ CameraFocusEffect(sel.mesh, rv, rk)

\* Mutant of MountedControls: the effect runs before the ref is attached.
MountedControlsLate == null

\* controlsRef.current when CameraFocus's effect first runs: React attaches
\* the refs of a commit before it runs the commit's effects.
MountedControls == "controls"

\* The canvas content mounts: OrbitControls attaches its ref, then the effects
\* run for the first time.  No scene yet, so no pointer listener.
MountCanvas ==
    /\ phase = "boot"
    /\ phase' = "live"
    /\ controlsRef' = "controls"
    /\ EffectRun(selectedMesh, resetView, MountedControls)
    /\ lastEvent' = "mount"
    /\ UNCHANGED <<modelStatus, gltfScene, selVars, showInstructions, debugEnabled,
                   hoverInfo, resetKey, resetView, defaultView, camPos, camTarget,
                   sceneVars, writers, lastPick>>

\* The model loads: Model mounts, reports the scene and runs its highlight pass.
SceneReady ==
    /\ phase = "live"
    /\ gltfScene = null
    /\ modelStatus = "Loading..."
    /\ modelStatus' = "Loaded"
    /\ gltfScene' = "scene"
    /\ LET sc == Traverse(SceneNow, 1, selectedId)
       IN  /\ material' = sc.material
           /\ emissive' = sc.emissive
           /\ clones' = sc.clones
    /\ lastEvent' = "scene"
    /\ UNCHANGED <<phase, selVars, showInstructions, debugEnabled, hoverInfo, resetKey,
                   resetView, defaultView, controlsRef, camVars, writers, lastPick>>

\* The model fails to load: ModelErrorBoundary reports it.
ModelError ==
    /\ phase = "live"
    /\ gltfScene = null
    /\ modelStatus = "Loading..."
    /\ modelStatus' = "Missing model"
    /\ lastEvent' = "error"
    /\ UNCHANGED <<phase, gltfScene, selVars, showInstructions, debugEnabled, hoverInfo,
                   resetKey, resetView, defaultView, controlsRef, camVars, sceneVars,
                   writers, lastPick>>

\* Mutant of Listening: the cleanup leaves the listener on the canvas.
ListeningLeak == phase = "torn" \/ (phase = "live" /\ gltfScene # null)

\* The pointer listeners are on the canvas: the effect adds them once there is
\* a scene, its cleanup removes them.
Listening == phase = "live" /\ gltfScene # null

\* HoverProbe adds its listeners only while diagnostics mode is on.
HoverListening == Listening /\ debugEnabled

\* A pointer event on the canvas that no listener hears: nothing runs.
Unheard ==
    /\ lastEvent' = "unheard"
    /\ UNCHANGED <<phase, appVars, camVars, sceneVars, writers, lastPick>>

\* A pointer-down on the canvas: ScenePicker.handlePointerDown, with onSelect
\* or onMiss, if the listener is there.
PointerDown(cx, cy) ==
    /\ phase # "boot"
    /\ IF ~Listening THEN Unheard
       ELSE
        /\ LET pick == Pick(camPos, camTarget, cx, cy)
           IN  /\ showInstructions' = FALSE
               /\ IF pick.hit # null
                  THEN /\ Commit(OnSelect(pick.hit), SelectView, resetKey)
                       /\ hoverInfo' = IF debugEnabled
                                       THEN [name |-> DisplayName(pick.hit), x |-> cx,
                                             y |-> cy, visible |-> TRUE]
                                       ELSE hoverInfo
                  ELSE /\ Commit(Cleared, resetView, resetKey)
                       /\ hoverInfo' = [hoverInfo EXCEPT !.visible = FALSE]
               /\ lastPick' = [at |-> <<cx, cy>>, cam |-> Pose(camPos, camTarget),
                               hit |-> pick.hit, samples |-> pick.samples]
        /\ lastEvent' = IF lastPick.at = <<cx, cy>> /\ lastPick.cam = Pose(camPos, camTarget)
                        THEN "pointerdown again"
                        ELSE "pointerdown"
        /\ UNCHANGED <<phase, modelStatus, gltfScene, debugEnabled, defaultView,
                       controlsRef, camPos, camTarget, writers>>

\* The Clear selection button (disabled while nothing is selected).
ClearSelection ==
    /\ phase # "torn"
    /\ selectedId # null
    /\ Commit(Cleared, resetView, resetKey)
    /\ lastEvent' = "clear"
    /\ UNCHANGED <<phase, modelStatus, gltfScene, showInstructions, debugEnabled,
                   hoverInfo, defaultView, controlsRef, camPos, camTarget, writers,
                   lastPick>>

\* The Home button.
Home ==
    /\ phase # "torn"
    /\ resetKey < MaxResets
    /\ Commit(Cleared, HomeView, resetKey + 1)
    /\ lastEvent' = "home"
    /\ UNCHANGED <<phase, modelStatus, gltfScene, showInstructions, debugEnabled,
                   hoverInfo, defaultView, controlsRef, camPos, camTarget, writers,
                   lastPick>>

\* The Debug button.
ToggleDebug ==
    /\ phase # "torn"
    /\ debugEnabled' = ~debugEnabled
    /\ lastEvent' = "debug"
    /\ UNCHANGED <<phase, modelStatus, gltfScene, selVars, showInstructions, hoverInfo,
                   resetKey, resetView, defaultView, controlsRef, camVars, sceneVars,
                   writers, lastPick>>

\* Mutant of HoverSelection: hovering a mesh selects it.
HoverSelects(mesh) == IF mesh # null THEN OnSelect(mesh) ELSE Cleared

\* onHover and onLeave set hoverInfo and nothing else: the selection stays.
HoverSelection(mesh) == [id |-> selectedId, name |-> selectedName, mesh |-> selectedMesh]

\* onHover
OnHover(mesh, cx, cy) == [name |-> DisplayName(mesh), x |-> cx, y |-> cy, visible |-> TRUE]

\* HoverProbe.handlePointerMove: one ray, no offsets.
PointerMove(cx, cy) ==
    /\ phase # "boot"
    /\ IF ~HoverListening THEN Unheard
       ELSE
        /\ LET hit == FindMesh(intersectObject(camPos, camTarget,
                           <<NdcX(cx - rect.left), NdcY(cy - rect.top)>>))
           IN  /\ hoverInfo' = IF hit # null THEN OnHover(hit, cx, cy)
                                ELSE [hoverInfo EXCEPT !.visible = FALSE]
               /\ selectedId' = HoverSelection(hit).id
               /\ selectedName' = HoverSelection(hit).name
               /\ selectedMesh' = HoverSelection(hit).mesh
        /\ lastEvent' = "hover"
        /\ UNCHANGED <<phase, modelStatus, gltfScene, showInstructions,
                       debugEnabled, resetKey, resetView, defaultView, controlsRef,
                       camVars, sceneVars, writers, lastPick>>

\* HoverProbe.handlePointerLeave
PointerLeave ==
    /\ phase # "boot"
    /\ IF ~HoverListening THEN Unheard
       ELSE
        /\ hoverInfo' = [hoverInfo EXCEPT !.visible = FALSE]
        /\ lastEvent' = "leave"
        /\ UNCHANGED <<phase, modelStatus, gltfScene, selVars, showInstructions,
                       debugEnabled, resetKey, resetView, defaultView, controlsRef,
                       camVars, sceneVars, writers, lastPick>>

\* An animation frame, gap ms after the last one: animate(now) if scheduled.
\* The browser delivers frames whether the view is mounted or torn down.
Tick(gap) ==
    /\ phase # "boot"
    /\ LET aged   == [i \in 1..Len(orphans) |-> [orphans[i] EXCEPT !.elapsed = @ + gap]]
           stale  == IF orphans # <<>> THEN {"orphan"} ELSE {}
       IN  /\ orphans' = SelectSeq(aged, LAMBDA o : Fraction(o.elapsed) < TRes)
           /\ IF rafPending
              THEN LET e     == elapsed + gap
                       t     == Fraction(e)
                       eased == easeInOut(t)
                   IN  /\ elapsed' = e
                       /\ camPos' = lerpVectors(request.startPos, request.endPos, eased)
                       /\ camTarget' = lerpVectors(request.startTarget,
                                                   request.endTarget, eased)
                       /\ rafPending' = (t < TRes)
                       /\ writers' = {"animator"} \cup stale
              ELSE /\ writers' = stale
                   /\ UNCHANGED <<elapsed, rafPending>>
                   /\ IF orphans # <<>>
                      THEN LET o     == aged[Len(aged)]
                               eased == easeInOut(Fraction(o.elapsed))
                           IN  /\ camPos' = lerpVectors(o.request.startPos,
                                                        o.request.endPos, eased)
                               /\ camTarget' = lerpVectors(o.request.startTarget,
                                                           o.request.endTarget, eased)
                      ELSE UNCHANGED <<camPos, camTarget>>
    /\ lastEvent' = "frame"
    /\ UNCHANGED <<phase, appVars, request, hasCleanup, sceneVars, lastPick>>

\* OrbitControls: a rotate or zoom gesture moves the camera about the target.
\* The controls are mounted enabled and nothing in the app disables them.
UserOrbit(offset) ==
    /\ phase = "live"
    /\ controlsRef # null
    /\ camPos' = VAdd(camTarget, offset)
    /\ writers' = writers \cup {"user"}
    /\ lastEvent' = "orbit"
    /\ UNCHANGED <<phase, appVars, camTarget, request, elapsed, rafPending, hasCleanup,
                   orphans, sceneVars, lastPick>>

\* App unmounts: effect cleanups cancel the frame callback and remove the
\* listeners, the refs are detached and the component state is discarded.  The
\* camera and the cached scene objects outlive the components.
Teardown ==
    /\ phase # "torn"
    /\ phase' = "torn"
    /\ controlsRef' = null
    /\ rafPending' = AfterCleanup(hasCleanup, rafPending)
    /\ hasCleanup' = FALSE
    /\ modelStatus' = "Loading..."
    /\ gltfScene' = null
    /\ selectedId' = null
    /\ selectedName' = ""
    /\ selectedMesh' = null
    /\ showInstructions' = TRUE
    /\ debugEnabled' = FALSE
    /\ hoverInfo' = [name |-> "", x |-> 0, y |-> 0, visible |-> FALSE]
    /\ resetKey' = 0
    /\ resetView' = NoView
    /\ request' = NoRequest
    /\ elapsed' = 0
    /\ writers' = {}
    /\ lastPick' = NoPick
    /\ lastEvent' = (IF rafPending THEN "teardown in flight" ELSE "teardown")
    /\ UNCHANGED <<defaultView, camPos, camTarget, orphans, sceneVars>>

\* The user taps, clears, resets, orbits; frames run; diagnostics stay off.
Next ==
    \/ MountCanvas
    \/ SceneReady
    \/ ModelError
    \/ \E p \in Pointers : PointerDown(p[1], p[2])
    \/ ClearSelection
    \/ Home
    \/ \E gap \in Gaps : Tick(gap)
    \/ \E o \in OrbitOffsets : UserOrbit(o)
    \/ Teardown

\* The user taps, clears and uses diagnostics mode; frames run; the Home
\* button and the orbit controls are left alone.
NextDiag ==
    \/ MountCanvas
    \/ SceneReady
    \/ ModelError
    \/ \E p \in Pointers : PointerDown(p[1], p[2])
    \/ ClearSelection
    \/ ToggleDebug
    \/ \E p \in HoverPointers : PointerMove(p[1], p[2])
    \/ PointerLeave
    \/ \E gap \in Gaps : Tick(gap)
    \/ Teardown

Spec == Init /\ [][Next]_vars

SpecDiag == Init /\ [][NextDiag]_vars

\* The browser keeps delivering frames while the canvas is mounted.
FairSpec == Spec /\ WF_vars(\E gap \in Gaps : Tick(gap))

\* ------------------------------------------------------------------ claims
Empty == selectedId = null /\ selectedName = "" /\ selectedMesh = null
Selected(c) == selectedId = Uuid[c] /\ selectedName = DisplayName(c) /\ selectedMesh = c
IsPointerDown == lastEvent \in {"pointerdown", "pointerdown again"}
LivePose == Pose(camPos, camTarget)

\* C1: a pointer-down whose pick hits surface S leaves the selection Selected(S);
\* a pointer-down that misses at every offset, the Clear selection button and
\* the Home button leave it Empty.
C1_SelectionFollowsCommand ==
    /\ (IsPointerDown /\ lastPick.hit # null => Selected(lastPick.hit))
    /\ (IsPointerDown /\ lastPick.hit = null => Empty)
    /\ (lastEvent \in {"clear", "home"} => Empty)

\* C1 witness: after a Home, a tap has selected the molar.
C1_Witness ==
    IsPointerDown /\ lastPick.hit = "molar" /\ Selected("molar") /\ resetKey > 0

\* A pointer-down that hits the surface that is selected already.
Reselect == IsPointerDown' /\ selectedMesh # null /\ lastPick'.hit = selectedMesh

Supersedes ==
    /\ rafPending /\ elapsed > 0 /\ Fraction(elapsed) < TRes
    /\ rafPending' /\ elapsed' = 0

\* C3: a transition started while another is at fraction 0 < t < 1 starts from
\* the live pose, which is the pose the running one interpolated to at t unless
\* the user moved the camera since its last frame.
C3_Continuity ==
    [][Supersedes =>
        /\ request'.startPos = camPos
        /\ request'.startTarget = camTarget
        /\ ("user" \notin writers =>
              /\ camPos = lerpVectors(request.startPos, request.endPos,
                                      easeInOut(Fraction(elapsed)))
              /\ camTarget = lerpVectors(request.startTarget, request.endTarget,
                                         easeInOut(Fraction(elapsed))))]_vars

\* C3 witness: a transition has just started from a pose between two centres,
\* where only a transition in flight can have put the camera.
C3_Witness ==
    /\ rafPending
    /\ elapsed = 0
    /\ request.startTarget = camTarget
    /\ request.startPos = camPos
    /\ \A c \in Meshes : camTarget # Center(c)
    /\ lastEvent \in {"pointerdown", "home"}

\* C4: Home, with a surface selected, empties the selection and starts a
\* transition that ends at position (0, 1.2, 3), target (0, 0, 0); the stored
\* default pose is never modified.
C4_Reset ==
    /\ [][lastEvent' = "home" /\ selectedMesh # null =>
            /\ Empty'
            /\ resetView' = <<DefaultPose>>
            /\ rafPending'
            /\ elapsed' = 0
            /\ request'.endPos = <<0, 12, 30>>
            /\ request'.endTarget = <<0, 0, 0>>]_vars
    /\ [](defaultView = DefaultPose)

\* C4 witness: the second Home of a run, pressed while the camera was on its
\* way to a selected surface, has started a transition to the default pose.
C4_Witness ==
    /\ lastEvent = "home"
    /\ resetKey = 2
    /\ lastPick.hit # null
    /\ Empty
    /\ rafPending
    /\ elapsed = 0
    /\ request.endPos = DefaultPose.position
    /\ request.endTarget = DefaultPose.target
    /\ request.startTarget # DefaultPose.target

C6_Order == << <<0, 0>>, <<6, 0>>, <<-6, 0>>, <<0, 6>>, <<0, -6>>,
               <<8, 8>>, <<-8, 8>>, <<8, -8>>, <<-8, -8>> >>

\* What the ray of the contract's i-th offset finds, for the last pointer-down.
C6_Found(i) ==
    LET hits == intersectObject(lastPick.cam.position, lastPick.cam.target,
                    <<NdcX(lastPick.at[1] - rect.left + C6_Order[i][1]),
                      NdcY(lastPick.at[2] - rect.top + C6_Order[i][2])>>)
    IN  {hits[j] : j \in {j \in 1..Len(hits) :
                            /\ Node[hits[j]].isMesh
                            /\ \A l \in 1..(j - 1) : ~Node[hits[l]].isMesh}}

\* C6: the k-th offset, k the first in the contract's order whose ray meets a
\* mesh, decides the pick: that mesh is selected and k rays were cast; with no
\* such offset all nine rays were cast and the selection is Empty.
C6_OffsetFallbackOrder ==
    IsPointerDown =>
        LET K == {i \in 1..9 : C6_Found(i) # {}}
        IN  IF K = {}
            THEN lastPick.hit = null /\ lastPick.samples = 9 /\ Empty
            ELSE LET k == CHOOSE i \in K : \A j \in K : i <= j
                 IN  /\ lastPick.samples = k
                     /\ C6_Found(k) = {lastPick.hit}
                     /\ Selected(lastPick.hit)

\* C6 witness: the fifth offset was the first to meet a mesh, and of the two
\* meshes its ray met the nearer was selected.
C6_Witness ==
    /\ IsPointerDown
    /\ lastPick.samples = 5
    /\ lastPick.hit = "molar"
    /\ Selected("molar")

C8_ExclusiveHighlight ==
    phase = "live" =>
        /\ Cardinality({c \in ChildSet : Highlighted(c)}) <= 1
        /\ \A c \in ChildSet : Highlighted(c) => selectedMesh = c /\ selectedId = Uuid[c]
        /\ (selectedId = null => \A c \in ChildSet : ~Highlighted(c))

\* C8 witness: the incisor is selected and highlighted, and the molar, made
\* from the same material definition, is not.
C8_Witness ==
    /\ phase = "live"
    /\ Selected("incisor")
    /\ Highlighted("incisor")
    /\ ~Highlighted("molar")
    /\ material["incisor"].base = material["molar"].base

\* C9: pointer-move, pointer-leave and the Debug toggle change neither the
\* selection nor the transition in flight; a frame changes neither the
\* selection nor the poses of the transition request.
C9_HoverLeavesSelection ==
    [][/\ (lastEvent' \in {"hover", "leave", "debug"} =>
              UNCHANGED <<selVars, resetView, resetKey, request, elapsed,
                          rafPending, hasCleanup>>)
       /\ (lastEvent' = "frame" =>
              UNCHANGED <<selVars, resetView, resetKey, request, hasCleanup>>)]_vars

\* C9 witness: the pointer hovers one mesh while another is selected and its
\* transition is in flight.
C9_Witness ==
    /\ lastEvent = "hover"
    /\ hoverInfo.visible
    /\ selectedMesh # null
    /\ hoverInfo.name # selectedName
    /\ rafPending
    /\ elapsed > 0

\* C10 as claimed: in no frame do the animator and the orbit controls both
\* write the camera pose, and a gesture during a transition leaves the pose as
\* it is.
C10_ExclusiveAuthority ==
    /\ [](writers # {"animator", "user"})
    /\ [][rafPending /\ lastEvent' = "orbit" => UNCHANGED <<camPos, camTarget>>]_vars

\* Frame callbacks of CameraFocus that are scheduled.
PendingCallbacks == (IF rafPending THEN 1 ELSE 0) + Len(orphans)

\* C11: at most one frame callback of CameraFocus is scheduled at any time, and
\* no frame has the callback of a replaced transition write the camera pose.
C11_SingleTransition ==
    /\ PendingCallbacks <= 1
    /\ "orphan" \notin writers

\* C11 witness: a transition that replaced another in flight has had a frame.
C11_Witness ==
    /\ lastEvent = "frame"
    /\ writers = {"animator"}
    /\ rafPending
    /\ elapsed > 0
    /\ \A c \in Meshes : request.startTarget # Center(c)

\* The selection goes from mesh a to another mesh b and the highlight pass runs.
Repaint(a, b) == gltfScene # null /\ selectedMesh = a /\ selectedMesh' = b

\* The materials when that pass has visited n children.
Step(n) == PassPrefix(SceneNow, n, selectedId')

C13_RunsUntilDoneOrSuperseded ==
    [][rafPending /\ ~rafPending' =>
          \/ lastEvent' = "frame" /\ Fraction(elapsed') = TRes
          \/ phase' = "torn"]_vars

\* C15: a reset asked for while controlsRef.current is null starts nothing and
\* fails nothing; the effect run at mount, when the handle exists, starts the
\* transition to the pose asked for; under FairSpec that transition ends or
\* is replaced by a selection, and the frame that ends it puts the camera at
\* the pose asked for.
C15_DeferredUntilHandle ==
    /\ [](controlsRef = null => ~rafPending)
    /\ [][phase = "boot" /\ lastEvent' = "home" =>
            phase' = "boot" /\ resetView' = <<DefaultPose>> /\ ~rafPending']_vars
    /\ [][phase = "boot" /\ phase' = "live" /\ resetView # NoView =>
            /\ rafPending'
            /\ elapsed' = 0
            /\ request'.endPos = resetView[1].position
            /\ request'.endTarget = resetView[1].target]_vars
    /\ (lastEvent = "mount" /\ resetView # NoView) ~> (~rafPending \/ resetView = NoView)
    /\ [][lastEvent' = "frame" /\ rafPending /\ ~rafPending' /\ resetView # NoView =>
            /\ camPos' = resetView[1].position
            /\ camTarget' = resetView[1].target]_vars

\* C15 witness: Home was pressed before the canvas content mounted, and the
\* mount has started the transition to the default pose.
C15_Witness ==
    /\ lastEvent = "mount"
    /\ resetKey > 0
    /\ resetView = <<DefaultPose>>
    /\ controlsRef # null
    /\ rafPending
    /\ request.endPos = DefaultPose.position
    /\ request.endTarget = DefaultPose.target

\* C16: once the view is torn down, whenever that was, no frame callback is
\* scheduled and no frame has the animator write the camera pose; no frame and
\* no pointer event changes the selection, the hover state or the camera pose;
\* the teardown itself leaves the camera pose alone.
C16_TornDownIsInert ==
    /\ [](phase = "torn" =>
            /\ PendingCallbacks = 0
            /\ writers = {}
            /\ Empty
            /\ ~hoverInfo.visible)
    /\ [][phase = "torn" =>
            UNCHANGED <<phase, selVars, hoverInfo, camPos, camTarget, rafPending,
                        orphans, sceneVars>>]_vars
    /\ [][phase # "torn" /\ phase' = "torn" => UNCHANGED <<camPos, camTarget>>]_vars

\* C16 witness: the view has been torn down between two frames of a
\* transition; the camera is where the last frame put it, part way.
C16_Witness ==
    /\ phase = "torn"
    /\ lastEvent = "teardown in flight"
    /\ ~rafPending
    /\ camTarget[1] \notin {Center(c)[1] : c \in Meshes}

\* C17: a material definition as loaded is never changed by highlighting; a
\* mesh's material is either the loaded one, before its first visit, or the
\* mesh's own clone, made by the one clone() call ever made for that mesh and
\* kept by every later pass; a highlight that is on is on a clone, and while
\* the view is live on the clone of the selected mesh; nothing is cloned for a
\* child that is no mesh.
C17_CopyOnWrite ==
    /\ [](\A c \in ChildSet :
            /\ emissive[Loaded(c)] = (IF HasEmissive(Loaded(c)) THEN "off" ELSE "na")
            /\ clones[c] <= 1
            /\ (clones[c] = 0 => material[c] = Loaded(c))
            /\ (clones[c] = 1 => material[c] = [base |-> Node[c].mat, owner |-> c])
            /\ (~Node[c].isMesh => clones[c] = 0))
    /\ [](\A m \in Materials : emissive[m] = "on" =>
            m.owner # "shared" /\ (phase = "live" => m.owner = selectedMesh))
    /\ [][\A c \in ChildSet : clones[c] = 1 =>
            clones'[c] = 1 /\ material'[c] = material[c]]_vars

\* C17 witness: after the pass at load, a pass for a selection of the molar
\* and a pass for the clearing of it, each mesh has the one clone made for it
\* and the loaded definitions are as loaded.
C17_Witness ==
    /\ lastEvent = "clear"
    /\ lastPick.hit = "molar"
    /\ \A c \in Meshes : clones[c] = 1 /\ material[c].owner = c
    /\ material["molar"] # material["incisor"]
    /\ emissive[Loaded("molar")] = "off"

\* C18: a pointer-down that selects a mesh other than the selected one starts
\* a transition whose end target is the centre of that mesh's bounding box and
\* whose end position is that centre plus (camera position - orbit target) as
\* they are then; the frame that ends a transition to a selected mesh leaves
\* the camera at the offset from its target that the transition started with.
C18_KeepsOffset ==
    /\ [][IsPointerDown' /\ lastPick'.hit # null /\ selectedMesh' # selectedMesh =>
            /\ rafPending'
            /\ elapsed' = 0
            /\ request'.endTarget = Center(selectedMesh')
            /\ request'.endPos = VAdd(Center(selectedMesh'), VSub(camPos, camTarget))]_vars
    /\ [][lastEvent' = "frame" /\ rafPending /\ ~rafPending' /\ selectedMesh # null =>
            /\ camTarget' = Center(selectedMesh)
            /\ VSub(camPos', camTarget') = VSub(request.startPos, request.startTarget)]_vars

\* C18 witness: a transition to the incisor, started with the orbit target
\* away from the origin and the camera zoomed in, has ended with the camera at
\* the same offset from the incisor's centre.
C18_Witness ==
    /\ lastEvent = "frame"
    /\ writers = {"animator"}
    /\ ~rafPending
    /\ selectedMesh = "incisor"
    /\ camTarget = Center("incisor")
    /\ request.startTarget # <<0, 0, 0>>
    /\ VSub(request.startPos, request.startTarget) = <<0, 12, 29>>
    /\ VSub(camPos, camTarget) = <<0, 12, 29>>

\* C19: in every state the selection is Empty, or it is Selected(c) for a
\* mesh c of the scene with a name that is not empty; the drawer is open
\* exactly when a mesh is selected.
C19_FieldsAgree ==
    /\ (Empty \/ \E c \in Meshes : Selected(c) /\ selectedName # "")
    /\ (DrawerOpen <=> selectedMesh # null)

\* C19 witness: the mesh without a name is selected under the generic label,
\* and the drawer is open.
C19_Witness ==
    /\ Selected("tongue")
    /\ Node["tongue"].name = ""
    /\ selectedName = UnnamedMesh
    /\ DrawerOpen

\* C20: in every state a stored reset view comes with an Empty selection, and
\* a transition scheduled while a mesh is selected ends at that mesh's centre.
C20_ResetExcludesSelection ==
    /\ (resetView # NoView => Empty)
    /\ (selectedMesh # null /\ rafPending => request.endTarget = Center(selectedMesh))

\* C20 witness: after a Home, the molar has been selected: the reset view is
\* gone and the transition goes to the molar, not to the default pose.
C20_Witness ==
    /\ IsPointerDown
    /\ resetKey > 0
    /\ Selected("molar")
    /\ resetView = NoView
    /\ rafPending
    /\ request.endTarget = Center("molar")
    /\ request.endTarget # DefaultPose.target

====
